---- MODULE Spec2Model ----
(***************************************************************************)
(* A model of bin/main.py: the extract -> transform -> model -> load       *)
(* pipeline over the titanic observation table.                            *)
(*                                                                         *)
(* Python values are modelled by what the interpreter and the libraries    *)
(* do with them: a str is a sequence of one-character strings, None and    *)
(* NaN are tagged values, a DataFrame is its row index, its rows and its   *)
(* set of columns, an estimator is a record with its fitted flag.          *)
(***************************************************************************)
EXTENDS Naturals, Integers, Sequences, FiniteSets, TLC

VARIABLES
    pc,                      \* where main() is: start, extracted, transformed, modelled, done, aborted
    conf_test_run,           \* lib.get_conf('test_run')
    upstream,                \* the table lib.load_titanic() has to offer
    observations,            \* main.py:38, mutated in place by transform
    train,                   \* main.py:39-40
    test,                    \* main.py:39-40
    transformation_pipeline, \* main.py:40
    trained_model,           \* main.py:40
    files,                   \* the batch output folder: file name -> content
    log,                     \* the records handed to logging
    stdout,                  \* what print wrote
    error,                   \* the exception that ended the run, "" while there is none
    stages,                  \* the stages main() has called, in call order
    completed                \* the stages that returned

vars == <<pc, conf_test_run, upstream, observations, train, test,
          transformation_pipeline, trained_model, files, log, stdout, error,
          stages, completed>>

-----------------------------------------------------------------------------
(* Bounds of the model. *)

\* Rows of the upstream table in the pipeline specification.
MaxRows == 5

\* Rows of the table handed to transform in the transform specification.
MaxTRows == 2

\* Characters of a name in the transform specification.
MaxNameLen == 3

\* Rows the upstream table has beyond the sample size in the extract specification.
MaxExtra == 1

\* Rows of the train and of the test table handed to load in the load specification.
MaxLoadRows == 2

-----------------------------------------------------------------------------
(* Program constants. *)

\* observations.sample(100)
SampleSize == 100

\* train_test_split(observations, test_size=0.2), in percent
TestSizePercent == 20

\* GridSearchCV(..., cv=2, ...)
Cv == 2

-----------------------------------------------------------------------------
(* Python values. *)

PyStr(s) == [tag |-> "str", val |-> s]
PyNone == [tag |-> "None", val |-> <<>>]
PyNaN == [tag |-> "nan", val |-> <<>>]

\* The characters str.split() with no argument treats as separators.
Whitespace == {" ", "\t", "\n", "\r"}

\* str(x): a str is itself, None is 'None', a float NaN is 'nan'.  (The
\* names are byte strings, as the csv reader of this Python gives them.)
Str(x) ==
    CASE x.tag = "str" -> x.val
      [] x.tag = "None" -> <<"N", "o", "n", "e">>
      [] x.tag = "nan" -> <<"n", "a", "n">>

\* The string without its leading whitespace.
RECURSIVE LStrip(_)
LStrip(s) ==
    IF s = <<>> \/ Head(s) \notin Whitespace THEN s ELSE LStrip(Tail(s))

\* The longest prefix of the string that holds no whitespace.
RECURSIVE Token(_)
Token(s) ==
    IF s = <<>> \/ Head(s) \in Whitespace THEN <<>>
    ELSE <<Head(s)>> \o Token(Tail(s))

\* s.split(): the maximal runs of non-whitespace characters, in order.
RECURSIVE Split(_)
Split(s) ==
    LET t == LStrip(s) IN
    IF t = <<>> THEN <<>>
    ELSE <<Token(t)>> \o Split(SubSeq(t, Len(Token(t)) + 1, Len(t)))

\* A variant of SexIsMale that compares without regard to case.
SexIsMaleAnyCase(x) ==
    x.tag = "str" /\ x.val \in {<<"m", "a", "l", "e">>, <<"M", "a", "l", "e">>}

\* x == 'male' on one cell of the sex column: string equality, False for NaN and None.
SexIsMale(x) == x.tag = "str" /\ x.val = <<"m", "a", "l", "e">>

\* Whether lambda x: str(x).split()[0] raises IndexError on the cell.
HonorificRaises(x) == Split(Str(x)) = <<>>

\* A variant of Honorific that takes the last token: str(x).split()[-1].
HonorificLast(x) == Split(Str(x))[Len(Split(Str(x)))]

\* lambda x: str(x).split()[0]
Honorific(x) == Split(Str(x))[1]

Elements(seq) == {seq[i] : i \in 1..Len(seq)}

-----------------------------------------------------------------------------
(* Tables: pandas DataFrames. *)

NoTable == [columns |-> {}, index |-> <<>>, rows |-> <<>>]

\* A row as loaded; the derived columns hold a default until their column exists.
Row(sex, name, survived) ==
    [sex |-> sex, name |-> name, survived |-> survived,
     male |-> FALSE, honorific |-> <<>>, pred |-> "", index |-> 0]

UpstreamColumns == {"sex", "name", "survived"}

\* A freshly loaded table has the default RangeIndex 0..n-1.
RangeIndex(n) == [i \in 1..n |-> i - 1]

Table(rows) ==
    [columns |-> UpstreamColumns, index |-> RangeIndex(Len(rows)), rows |-> rows]

NRows(t) == Len(t.rows)

\* DataFrame.take(locs): the rows at the given positions, in that order.
Take(t, locs) ==
    [columns |-> t.columns,
     index |-> [i \in 1..Len(locs) |-> t.index[locs[i]]],
     rows |-> [i \in 1..Len(locs) |-> t.rows[locs[i]]]]

\* The sequences that list every element of the set exactly once.
RECURSIVE Orders(_)
Orders(S) ==
    IF S = {} THEN {<<>>}
    ELSE UNION {{<<x>> \o p : p \in Orders(S \ {x})} : x \in S}

\* observations.sample(n) draws n positions without replacement, in random
\* order, and raises ValueError when the table has fewer than n rows.
SampleRaises(t, n) == NRows(t) < n

\* The sets of k elements of S.
RECURSIVE KSubsets(_, _)
KSubsets(S, k) ==
    IF k = 0 THEN {{}}
    ELSE {T \cup {x} : T \in KSubsets(S, k - 1), x \in S} \ KSubsets(S, k - 1)

\* The positions of 1..rows outside `dropped`, ascending: the i-th is the
\* position x that has x - i dropped positions before it.
Kept(rows, dropped) ==
    [i \in 1..(rows - Cardinality(dropped)) |->
        CHOOSE x \in i..(i + Cardinality(dropped)) :
            x \notin dropped /\ Cardinality({y \in dropped : y < x}) = x - i]

Rotate(s, r) == [i \in 1..Len(s) |-> s[((i - 1 + r) % Len(s)) + 1]]

\* The position lists sample(n) may draw from a table of `rows` rows: every
\* choice of the n rows kept (of the rows - n left out), each in every
\* rotation of the ascending order (of the n! orders of a choice the model
\* enumerates these n).
SampleLocs(rows, n) ==
    {Rotate(Kept(rows, d), r) : d \in KSubsets(1..rows, rows - n), r \in 0..(n - 1)}

\* DataFrame.reset_index(): the old index becomes the column 'index', the new
\* index is the RangeIndex.
ResetIndex(t) ==
    [columns |-> t.columns \cup {"index"},
     index |-> RangeIndex(NRows(t)),
     rows |-> [i \in 1..NRows(t) |-> [t.rows[i] EXCEPT !.index = t.index[i]]]]

-----------------------------------------------------------------------------
(* Logging and the run's bookkeeping. *)

Info(msg) == [level |-> "INFO", msg |-> msg]
Warn(msg) == [level |-> "WARNING", msg |-> msg]

\* A variant of MainCalls in which main() goes on to load after a failed stage.
MainCallsSwallowing(stage) ==
    CASE stage = "extract" -> pc = "start"
      [] stage = "transform" -> pc = "extracted"
      [] stage = "model" -> pc = "transformed"
      [] stage = "load" -> pc \in {"modelled", "aborted"} /\ "load" \notin Elements(stages)

\* main() calls each stage where the one before returned; an exception in a
\* stage propagates out of main(), which calls nothing more.
MainCalls(stage) ==
    CASE stage = "extract" -> pc = "start"
      [] stage = "transform" -> pc = "extracted"
      [] stage = "model" -> pc = "transformed"
      [] stage = "load" -> pc = "modelled"

-----------------------------------------------------------------------------
(* extract *)

Extract ==
    /\ MainCalls("extract")
    /\ stages' = Append(stages, "extract")
    /\ \E loaded \in BOOLEAN :
         IF ~loaded THEN
            \* lib.load_titanic() raises
            /\ pc' = "aborted"
            /\ error' = "IOError"
            /\ log' = log \o <<Info("Begin extract")>>
            /\ UNCHANGED <<observations, completed>>
         ELSE IF conf_test_run /\ SampleRaises(upstream, SampleSize) THEN
            /\ pc' = "aborted"
            /\ error' = "ValueError"
            /\ log' = log \o <<Info("Begin extract"),
                               Warn("test_run is set to True. Subsetting to a much smaller data set for testing purposes.")>>
            /\ UNCHANGED <<observations, completed>>
         ELSE IF conf_test_run THEN
            \E locs \in SampleLocs(NRows(upstream), SampleSize) :
                /\ observations' = ResetIndex(Take(upstream, locs))
                /\ pc' = "extracted"
                /\ completed' = completed \cup {"extract"}
                /\ log' = log \o <<Info("Begin extract"),
                                   Warn("test_run is set to True. Subsetting to a much smaller data set for testing purposes."),
                                   Info("End extract")>>
                /\ UNCHANGED error
         ELSE
            /\ observations' = upstream
            /\ pc' = "extracted"
            /\ completed' = completed \cup {"extract"}
            /\ log' = log \o <<Info("Begin extract"), Info("End extract")>>
            /\ UNCHANGED error
    /\ UNCHANGED <<conf_test_run, upstream, train, test, transformation_pipeline,
                   trained_model, files, stdout>>

-----------------------------------------------------------------------------
(* transform *)

\* observations['male'] = observations['sex'] == 'male'
AddMale(t) ==
    [t EXCEPT !.columns = @ \cup {"male"},
              !.rows = [i \in 1..NRows(t) |-> [t.rows[i] EXCEPT !.male = SexIsMale(t.rows[i].sex)]]]

\* observations['name'].apply(...) raises when the lambda raises on a row.
ApplyRaises(t) == \E i \in 1..NRows(t) : HonorificRaises(t.rows[i].name)

\* observations['honorific'] = observations['name'].apply(lambda x: str(x).split()[0])
AddHonorific(t) ==
    [t EXCEPT !.columns = @ \cup {"honorific"},
              !.rows = [i \in 1..NRows(t) |-> [t.rows[i] EXCEPT !.honorific = Honorific(t.rows[i].name)]]]

\* The test rows of a split of n rows: ceil(test_size * n).  (The library
\* takes the ceiling of the floating-point product, which is the exact
\* ceiling for every n up to 14.)
NTest(n) == (TestSizePercent * n + 99) \div 100

\* The train rows: train_size is None, so the complement of the test rows.
NTrain(n) == n - NTest(n)

\* A variant of TrainTestSplit whose train rows start one position early.
TrainTestSplitOverlap(t, perm) ==
    LET n == NRows(t) IN
    <<Take(t, SubSeq(perm, IF NTest(n) > 0 THEN NTest(n) ELSE 1, NTest(n) + NTrain(n))),
      Take(t, SubSeq(perm, 1, NTest(n)))>>

\* train_test_split(t, test_size=0.2) under the shuffle `perm` of the row
\* positions: the first n_test positions of the shuffle are the test rows,
\* the n_train after them the train rows.  Returns <<train, test>>.
TrainTestSplit(t, perm) ==
    LET n == NRows(t) IN
    <<Take(t, SubSeq(perm, NTest(n) + 1, NTest(n) + NTrain(n))),
      Take(t, SubSeq(perm, 1, NTest(n)))>>

\* Whether the split may raise: the library versions differ on a split that
\* leaves the train side empty (older ones return it, newer ones raise).
SplitMayRaise(t) == IF NTrain(NRows(t)) = 0 THEN BOOLEAN ELSE {FALSE}

Transform ==
    /\ MainCalls("transform")
    /\ stages' = Append(stages, "transform")
    /\ IF ApplyRaises(AddMale(observations)) THEN
          /\ observations' = AddMale(observations)
          /\ pc' = "aborted"
          /\ error' = "IndexError"
          /\ log' = log \o <<Info("Begin transform")>>
          /\ UNCHANGED <<train, test, completed>>
       ELSE
          \E perm \in Orders(1..NRows(observations)) :
          \E raises \in SplitMayRaise(observations) :
             /\ observations' = AddHonorific(AddMale(observations))
             /\ IF raises THEN
                   /\ pc' = "aborted"
                   /\ error' = "ValueError"
                   /\ log' = log \o <<Info("Begin transform")>>
                   /\ UNCHANGED <<train, test, completed>>
                ELSE
                   /\ train' = TrainTestSplit(AddHonorific(AddMale(observations)), perm)[1]
                   /\ test' = TrainTestSplit(AddHonorific(AddMale(observations)), perm)[2]
                   /\ pc' = "transformed"
                   /\ completed' = completed \cup {"transform"}
                   /\ log' = log \o <<Info("Begin transform"), Info("End transform")>>
                   /\ UNCHANGED error
    /\ UNCHANGED <<conf_test_run, upstream, transformation_pipeline, trained_model,
                   files, stdout>>

-----------------------------------------------------------------------------
(* model *)

\* Python's None, where an estimator object is expected.
None == [class |-> "NoneType"]

\* Pipeline([('featureizer', mapper), ('svc', SVC())]): a new, unfitted estimator.
Pipeline(steps) == [class |-> "Pipeline", steps |-> steps, fitted |-> FALSE]

\* sklearn.base.clone: a new unfitted estimator with the same parameters.
Clone(est) == [est EXCEPT !.fitted = FALSE]

\* est.fit(X, y) on an estimator object.
FitEstimator(est) == [est EXCEPT !.fitted = TRUE]

\* numpy.linspace(start, stop, num), endpoint included (whole-number steps).
Linspace(start, stop, num) ==
    [i \in 1..num |->
        IF num = 1 THEN start ELSE start + ((i - 1) * (stop - start)) \div (num - 1)]

\* numpy.logspace(start, stop, num): 10 ** linspace(start, stop, num), each
\* value kept as its exponent of 10.
Logspace(start, stop, num) ==
    [i \in 1..num |-> [base |-> 10, exponent |-> Linspace(start, stop, num)[i]]]

\* range(start, stop)
Range(start, stop) == [i \in 1..(stop - start) |-> start + i - 1]

\* A variant of param_grid whose degrees stop at 6: range(2, 7).
param_grid_short ==
    [svc__gamma |-> Logspace(-9, 3, 1),
     svc__C |-> Logspace(-2, 10, 1),
     svc__kernel |-> <<"linear", "poly", "rbf", "sigmoid">>,
     svc__degree |-> Range(2, 7)]

\* {'svc__gamma': numpy.logspace(-9, 3, 1), 'svc__C': numpy.logspace(-2, 10, 1),
\*  'svc__kernel': ['linear', 'poly', 'rbf', 'sigmoid'], 'svc__degree': range(2, 8)}
param_grid ==
    [svc__gamma |-> Logspace(-9, 3, 1),
     svc__C |-> Logspace(-2, 10, 1),
     svc__kernel |-> <<"linear", "poly", "rbf", "sigmoid">>,
     svc__degree |-> Range(2, 8)]

\* sklearn's ParameterGrid: one candidate per element of the product of the value lists.
ParameterGrid(grid) ==
    {[svc__gamma |-> g, svc__C |-> c, svc__kernel |-> k, svc__degree |-> d] :
        g \in Elements(grid.svc__gamma), c \in Elements(grid.svc__C),
        k \in Elements(grid.svc__kernel), d \in Elements(grid.svc__degree)}

\* GridSearchCV(estimator, param_grid=..., scoring='accuracy', cv=..., n_jobs=-1)
GridSearchCV(estimator, grid, cv) ==
    [class |-> "GridSearchCV", estimator |-> estimator, param_grid |-> grid,
     scoring |-> "accuracy", cv |-> cv, fitted |-> FALSE,
     best_estimator_ |-> None, cv_results_ |-> {}, classes_ |-> {},
     decision |-> <<>>]

\* The labels of the table's survived column.
Classes(t) == {t.rows[i].survived : i \in 1..NRows(t)}

CountOf(t, label) == Cardinality({i \in 1..NRows(t) : t.rows[i].survived = label})

\* Whether trained_model.fit(train.copy(), y=train['survived']) raises: a NaN
\* label, fewer than two classes for the SVC, or a class with fewer members
\* than folds, which leaves a stratified fold's training part with one
\* class (error_score is 'raise').
FitRaises(t, cv) ==
    \/ "nan" \in Classes(t)
    \/ Cardinality(Classes(t)) < 2
    \/ \E label \in Classes(t) : CountOf(t, label) < cv

\* What the fitted pipeline reads of a row: the mapper's columns.
Features(row) == <<row.honorific, row.male>>

FeaturesOf(t) == {Features(t.rows[i]) : i \in 1..NRows(t)}

\* GridSearchCV.fit: every candidate is scored on clones of the estimator over
\* the folds, and a further clone with the best candidate's parameters is
\* refitted on all of X.  The estimator handed to the constructor is left as
\* it was.  `decision` is the refitted classifier's decision function.
Fit(gs, X, decision) ==
    [gs EXCEPT !.fitted = TRUE,
               !.best_estimator_ = FitEstimator(Clone(gs.estimator)),
               !.cv_results_ = {[params |-> c, n_splits |-> gs.cv] : c \in ParameterGrid(gs.param_grid)},
               !.classes_ = Classes(X),
               !.decision = decision]

\* data_set['pred'] = trained_model.predict(data_set)
SetPred(gs, t) ==
    [t EXCEPT !.columns = @ \cup {"pred"},
              !.rows = [i \in 1..NRows(t) |-> [t.rows[i] EXCEPT !.pred = gs.decision[Features(t.rows[i])]]]]

\* A variant of PredictedDataSets: for data_set in [train].
PredictedTrainOnly == {"train"}

\* for data_set in [train, test]: the data sets that get a pred column.
PredictedDataSets == {"train", "test"}

Model ==
    /\ MainCalls("model")
    /\ stages' = Append(stages, "model")
    /\ LET pipeline == Pipeline(<<"featureizer", "svc">>)
           search == GridSearchCV(pipeline, param_grid, Cv)
       IN
       IF FitRaises(train, search.cv) THEN
          /\ pc' = "aborted"
          /\ error' = "ValueError"
          /\ log' = log \o <<Info("Begin model"), Info("Training model")>>
          /\ UNCHANGED <<train, test, transformation_pipeline, trained_model, completed>>
       ELSE
          \E decision \in [FeaturesOf(train) \cup FeaturesOf(test) -> Classes(train)] :
             LET fitted == Fit(search, train, decision) IN
             /\ trained_model' = fitted
             /\ train' = IF "train" \in PredictedDataSets THEN SetPred(fitted, train) ELSE train
             /\ test' = IF "test" \in PredictedDataSets THEN SetPred(fitted, test) ELSE test
             \* the name transformation_pipeline is still bound to the object
             \* built at main.py:106, which is the search's estimator
             /\ transformation_pipeline' = fitted.estimator
             /\ pc' = "modelled"
             /\ completed' = completed \cup {"model"}
             /\ log' = log \o <<Info("Begin model"), Info("Training model"), Info("End model")>>
             /\ UNCHANGED error
    /\ UNCHANGED <<conf_test_run, upstream, observations, files, stdout>>

-----------------------------------------------------------------------------
(* load *)

Absent == [kind |-> "absent"]

\* DataFrame.to_csv(path, index=False): the header and the rows, without the index.
ToCsv(t) == [kind |-> "csv", header |-> t.columns, rows |-> t.rows]

\* cPickle.dump(obj, open(path, 'w+'))
Pickle(obj) == [kind |-> "pickle", obj |-> obj]

\* What a write that raises part-way leaves behind.
Truncated == [kind |-> "truncated"]

\* `if transformation_pipeline is not None`, `if trained_model is not None`
IsNotNone(obj) == obj # None

FileNames == {"train.csv", "test.csv", "transformation_pipeline.pkl", "trained_model.pkl"}

\* A variant of LoadWrites that pickles the pipeline without the None check.
LoadWritesUnguarded(tr, te, tp, tm) ==
    <<<<"train.csv", ToCsv(tr), Info("Saving train to path: train.csv")>>,
      <<"test.csv", ToCsv(te), Info("Saving test to path: train.csv")>>,
      <<"transformation_pipeline.pkl", Pickle(tp),
        Info("Saving transformation_pipeline to path: transformation_pipeline.pkl")>>>>
    \o (IF IsNotNone(tm)
        THEN <<<<"trained_model.pkl", Pickle(tm),
                 Info("Saving trained_model to path: trained_model.pkl")>>>>
        ELSE <<>>)

\* The writes load makes, in order: <<file name, content, log record>>.
LoadWrites(tr, te, tp, tm) ==
    <<<<"train.csv", ToCsv(tr), Info("Saving train to path: train.csv")>>,
      <<"test.csv", ToCsv(te), Info("Saving test to path: train.csv")>>>>
    \o (IF IsNotNone(tp)
        THEN <<<<"transformation_pipeline.pkl", Pickle(tp),
                 Info("Saving transformation_pipeline to path: transformation_pipeline.pkl")>>>>
        ELSE <<>>)
    \o (IF IsNotNone(tm)
        THEN <<<<"trained_model.pkl", Pickle(tm),
                 Info("Saving trained_model to path: trained_model.pkl")>>>>
        ELSE <<>>)

\* The files after the first k writes of `writes`, the one after them cut short when `cut`.
RECURSIVE Written(_, _, _, _)
Written(f, writes, k, cut) ==
    IF k = 0 THEN
        IF cut /\ writes # <<>> THEN [f EXCEPT ![writes[1][1]] = Truncated] ELSE f
    ELSE Written([f EXCEPT ![writes[1][1]] = writes[1][2]], Tail(writes), k - 1, cut)

\* The log records of the first k writes.
Logged(writes, k) == [i \in 1..k |-> writes[i][3]]

Load ==
    /\ MainCalls("load")
    /\ stages' = Append(stages, "load")
    /\ LET writes == LoadWrites(train, test, transformation_pipeline, trained_model) IN
       \E done \in 0..Len(writes) :
       \E cut \in BOOLEAN :
          IF done < Len(writes) THEN
             \* write number done + 1 raises: the file is not there, or cut short
             /\ files' = Written(files, writes, done, cut)
             /\ log' = log \o <<Info("Begin load")>> \o Logged(writes, done + 1)
             /\ pc' = "aborted"
             /\ error' = "IOError"
             /\ UNCHANGED <<stdout, completed>>
          ELSE
             /\ cut = FALSE
             /\ files' = Written(files, writes, done, FALSE)
             /\ log' = log \o <<Info("Begin load")>> \o Logged(writes, done) \o <<Info("End load")>>
             /\ stdout' = IF IsNotNone(trained_model)
                          THEN Append(stdout, trained_model.cv_results_)
                          ELSE stdout
             /\ pc' = "done"
             /\ completed' = completed \cup {"load"}
             /\ UNCHANGED error
    /\ UNCHANGED <<conf_test_run, upstream, observations, train, test,
                   transformation_pipeline, trained_model>>

-----------------------------------------------------------------------------
(* The pipeline: main() from its first line on. *)

\* Sequences over S of length 0..n.
SeqsUpTo(S, n) == UNION {[1..k -> S] : k \in 0..n}

Male == PyStr(<<"m", "a", "l", "e">>)
Female == PyStr(<<"f", "e", "m", "a", "l", "e">>)

\* The passenger records the pipeline specification draws upstream tables
\* from: a man who died, a woman who survived, a record with an empty name
\* and a record whose outcome is missing.
PipelineRows ==
    <<Row(Male, PyStr(<<"M", "r", ".", " ", "A">>), "0"),
      Row(Female, PyStr(<<"M", "r", "s", ".", " ", "B">>), "1"),
      Row(Male, PyStr(<<>>), "1"),
      Row(Female, PyStr(<<"M", "i", "s", "s", " ", "C">>), "nan")>>

\* The upstream tables of up to n records, up to the order of their rows
\* (transform shuffles the rows): the records in the order of PipelineRows.
PipelineTables(n) ==
    UNION {{Table([i \in 1..k |-> PipelineRows[f[i]]]) :
               f \in {g \in [1..k -> 1..Len(PipelineRows)] :
                         \A i \in 1..(k - 1) : g[i] <= g[i + 1]}} :
           k \in 0..n}

NoFiles == [f \in FileNames |-> Absent]

Init ==
    /\ pc = "start"
    /\ conf_test_run \in BOOLEAN
    /\ upstream \in PipelineTables(MaxRows)
    /\ observations = NoTable
    /\ train = NoTable
    /\ test = NoTable
    /\ transformation_pipeline = None
    /\ trained_model = None
    /\ files = NoFiles
    /\ log = <<>>
    /\ stdout = <<>>
    /\ error = ""
    /\ stages = <<>>
    /\ completed = {}

Next == Extract \/ Transform \/ Model \/ Load

Spec == Init /\ [][Next]_vars

-----------------------------------------------------------------------------
(* extract alone, on tables around the sample size. *)

\* A table of n records of one passenger.
Uniform(n) == Table([i \in 1..n |-> Row(Male, PyStr(<<"M", "r", ".", " ", "A">>), "0")])

InitExtract ==
    /\ pc = "start"
    /\ conf_test_run \in BOOLEAN
    /\ upstream \in {Uniform(n) : n \in (SampleSize - 1)..(SampleSize + MaxExtra)}
    /\ observations = NoTable
    /\ train = NoTable
    /\ test = NoTable
    /\ transformation_pipeline = None
    /\ trained_model = None
    /\ files = NoFiles
    /\ log = <<>>
    /\ stdout = <<>>
    /\ error = ""
    /\ stages = <<>>
    /\ completed = {}

NextExtract == Extract

SpecExtract == InitExtract /\ [][NextExtract]_vars

-----------------------------------------------------------------------------
(* transform alone, on every short name. *)

NameAlphabet == {" ", "\t", "M", "r"}

\* Every str of up to MaxNameLen characters, None and NaN.
NameValues ==
    {PyStr(s) : s \in SeqsUpTo(NameAlphabet, MaxNameLen)} \cup {PyNone, PyNaN}

SexValues == {Male, Female, PyStr(<<"M", "a", "l", "e">>), PyNaN}

TransformRows == {Row(s, n, "1") : s \in SexValues, n \in NameValues}

\* The tables of up to n records whose first record is any of TransformRows
\* and whose further records are records of the pipeline specification.
TransformTables(n) ==
    {Table(<<>>)} \cup
    {Table(<<r>> \o rest) :
        r \in TransformRows, rest \in SeqsUpTo(Elements(PipelineRows), n - 1)}

ExtractLog == <<Info("Begin extract"), Info("End extract")>>

InitTransform ==
    /\ pc = "extracted"
    /\ conf_test_run = FALSE
    /\ upstream \in TransformTables(MaxTRows)
    /\ observations = upstream
    /\ train = NoTable
    /\ test = NoTable
    /\ transformation_pipeline = None
    /\ trained_model = None
    /\ files = NoFiles
    /\ log = ExtractLog
    /\ stdout = <<>>
    /\ error = ""
    /\ stages = <<"extract">>
    /\ completed = {"extract"}

NextTransform == Transform

SpecTransform == InitTransform /\ [][NextTransform]_vars

-----------------------------------------------------------------------------
(* load alone, on the arguments model can return and on None. *)

\* A train table the search can be fitted on.
LoadBase ==
    AddHonorific(AddMale(Table(<<PipelineRows[1], PipelineRows[1],
                                 PipelineRows[2], PipelineRows[2]>>)))

\* The searches fitted on it, one per decision function.
LoadModels ==
    {Fit(GridSearchCV(Pipeline(<<"featureizer", "svc">>), param_grid, Cv), LoadBase, d) :
        d \in [FeaturesOf(LoadBase) -> Classes(LoadBase)]}

\* The tables of up to n rows with the predictions of search m.
LoadTables(m, n) ==
    {SetPred(m, AddHonorific(AddMale(Table(rows)))) :
        rows \in SeqsUpTo({PipelineRows[1], PipelineRows[2]}, n)}

InitLoad ==
    /\ pc = "modelled"
    /\ conf_test_run = FALSE
    /\ upstream = NoTable
    /\ observations = NoTable
    /\ \E m \in LoadModels :
          /\ train \in LoadTables(m, MaxLoadRows)
          /\ test \in LoadTables(m, MaxLoadRows)
          /\ transformation_pipeline \in {None, m.estimator}
          /\ trained_model \in {None, m}
    /\ files = NoFiles
    /\ log = <<>>
    /\ stdout = <<>>
    /\ error = ""
    /\ stages = <<"extract", "transform", "model">>
    /\ completed = {"extract", "transform", "model"}

NextLoad == Load

SpecLoad == InitLoad /\ [][NextLoad]_vars

-----------------------------------------------------------------------------
(* The claims. *)

StageOrder == <<"extract", "transform", "model", "load">>

\* C1: a run calls the four stages at most once each, in the order extract,
\* transform, model, load; a stage is called only when every stage before it
\* has returned, so a failed stage is the last one called; a finished run
\* has called and completed all four; and no output file exists, whole or
\* cut short, unless extract, transform and model have all returned.
C1_LinearRun ==
    /\ Len(stages) <= Len(StageOrder)
    /\ \A i \in 1..Len(stages) : stages[i] = StageOrder[i]
    /\ \A i \in 1..(Len(stages) - 1) : stages[i] \in completed
    /\ completed \subseteq Elements(stages)
    /\ (pc = "aborted" => error # "" /\ stages[Len(stages)] \notin completed)
    /\ (pc = "done" => stages = StageOrder /\ completed = Elements(StageOrder))
    /\ ((\E f \in FileNames : files[f] # Absent)
            => {"extract", "transform", "model"} \subseteq completed)

\* C1's case: a run that went through all four stages and wrote its four files.
C1_Witness ==
    /\ pc = "done"
    /\ \A f \in FileNames : files[f].kind \in {"csv", "pickle"}

IndexSet(t) == Elements(t.index)

\* The row of the table under the index label.
RowAt(t, label) == t.rows[CHOOSE i \in 1..NRows(t) : t.index[i] = label]

\* A row without its prediction.
Core(r) == [r EXCEPT !.pred = ""]

\* C2: once transform has returned, train and test share no row, every row
\* of the observation table is in exactly one of them, unchanged, and their
\* row counts sum to the table's.
C2_Partition ==
    "transform" \in completed =>
        /\ NRows(train) + NRows(test) = NRows(observations)
        /\ IndexSet(train) \cap IndexSet(test) = {}
        /\ IndexSet(train) \cup IndexSet(test) = IndexSet(observations)
        /\ Cardinality(IndexSet(train)) = NRows(train)
        /\ Cardinality(IndexSet(test)) = NRows(test)
        /\ \A i \in 1..NRows(train) :
              Core(train.rows[i]) = RowAt(observations, train.index[i])
        /\ \A i \in 1..NRows(test) :
              Core(test.rows[i]) = RowAt(observations, test.index[i])

\* C2's case: a table of five rows split into four train rows and one test row.
C2_Witness ==
    /\ pc = "transformed"
    /\ NRows(observations) = 5
    /\ NRows(train) = 4
    /\ NRows(test) = 1

Min(a, b) == IF a < b THEN a ELSE b

\* C3, as claimed: with test_run set and the data set loaded, extract returns
\* (it does not fail) a table of 100 rows, or of all the rows when there are
\* fewer, with the index 0, 1, 2, ...
C3_TestRunSubsample ==
    (conf_test_run /\ "extract" \in Elements(stages) /\ error # "IOError") =>
        /\ pc = "extracted"
        /\ NRows(observations) = Min(SampleSize, NRows(upstream))
        /\ observations.index = RangeIndex(NRows(observations))

\* A name cell that is missing or malformed: None, NaN, or a str with no
\* character other than whitespace.
Malformed(x) ==
    x.tag \in {"None", "nan"} \/ (x.tag = "str" /\ Elements(x.val) \subseteq Whitespace)

\* C4, as claimed: when transform has run on a table with a malformed name,
\* the tokenization has not raised, and the honorific of each such row is the
\* empty string.
C4_MalformedNameFallback ==
    ("transform" \in Elements(stages)
        /\ \E i \in 1..NRows(upstream) : Malformed(upstream.rows[i].name)) =>
        /\ error # "IndexError"
        /\ "honorific" \in observations.columns
        /\ \A i \in 1..NRows(observations) :
              Malformed(observations.rows[i].name) => observations.rows[i].honorific = <<>>

\* C5, as claimed: when the run has finished, the object pickled to
\* transformation_pipeline.pkl is a fitted pipeline.
C5_PickledPipelineFitted ==
    pc = "done" =>
        /\ files["transformation_pipeline.pkl"].kind = "pickle"
        /\ files["transformation_pipeline.pkl"].obj.fitted

\* The records load logs for a write it makes, and at its begin and end.
WriteRecords(tr, te, tp, tm) ==
    {LoadWrites(tr, te, tp, tm)[i][3] : i \in 1..Len(LoadWrites(tr, te, tp, tm))}
        \cup {Info("Begin load"), Info("End load")}

\* The file load leaves for an object: its pickle, or none for None.
Persisted(obj) == IF obj = None THEN Absent ELSE Pickle(obj)

\* C6, as claimed: when load has returned and an object was None, there is no
\* file for it, the log holds a record of the skipped serialization (a record
\* other than those of load's begin, end and writes), and train.csv, test.csv
\* and the other object's file are written.
C6_SkipIsLogged ==
    (pc = "done" /\ (transformation_pipeline = None \/ trained_model = None)) =>
        /\ files["transformation_pipeline.pkl"] = Persisted(transformation_pipeline)
        /\ files["trained_model.pkl"] = Persisted(trained_model)
        /\ files["train.csv"] = ToCsv(train)
        /\ files["test.csv"] = ToCsv(test)
        /\ \E i \in 1..Len(log) :
              log[i] \notin WriteRecords(train, test, transformation_pipeline, trained_model)

\* C6, amended: load raises for no reason but a failed write (never because
\* an object is None); when it has returned and an object was None, there is
\* no file for that object, the log holds nothing about it (only the records
\* of load's begin, end and of the four possible writes that were made), and
\* train.csv, test.csv and the other object's file are written.
C6_SkipIsSilent ==
    /\ (pc = "aborted" => error = "IOError")
    /\ (pc = "done" /\ (transformation_pipeline = None \/ trained_model = None)) =>
        /\ files["transformation_pipeline.pkl"] = Persisted(transformation_pipeline)
        /\ files["trained_model.pkl"] = Persisted(trained_model)
        /\ files["train.csv"] = ToCsv(train)
        /\ files["test.csv"] = ToCsv(test)
        /\ \A i \in 1..Len(log) :
              log[i] \in WriteRecords(train, test, transformation_pipeline, trained_model)
        /\ (transformation_pipeline = None =>
              Info("Saving transformation_pipeline to path: transformation_pipeline.pkl")
                  \notin Elements(log))
        /\ (trained_model = None =>
              Info("Saving trained_model to path: trained_model.pkl") \notin Elements(log))

\* C6's case: load returned with no pipeline and a trained model, whose
\* pickle it wrote.
C6_Witness ==
    /\ pc = "done"
    /\ transformation_pipeline = None
    /\ trained_model # None
    /\ files["transformation_pipeline.pkl"] = Absent
    /\ files["trained_model.pkl"].kind = "pickle"
    /\ files["train.csv"].kind = "csv"

\* The labels of the survived column that are not missing.
LabelDomain == Classes(observations) \ {"nan"}

HasPred(t) ==
    /\ "pred" \in t.columns
    /\ \A i \in 1..NRows(t) : t.rows[i].pred \in LabelDomain

\* C7: once model has returned, train and test both have the pred column,
\* and every row's pred is a label of the survived column, never missing.
C7_EveryRowPredicted ==
    "model" \in completed => HasPred(train) /\ HasPred(test)

\* C7's case: model returned, and a test row whose own outcome is missing
\* has its prediction.
C7_Witness ==
    /\ pc = "modelled"
    /\ NRows(train) >= 4
    /\ \E i \in 1..NRows(test) :
          test.rows[i].survived = "nan" /\ test.rows[i].pred \in {"0", "1"}

MaleColumnRight(t) ==
    /\ "male" \in t.columns
    /\ \A i \in 1..NRows(t) : t.rows[i].male <=> (t.rows[i].sex = Male)

\* C8: wherever transform has set the male column, and in train and test
\* once it has returned, each row's male is true exactly when its sex is the
\* str 'male'.
C8_MaleIffSexIsMale ==
    /\ ("male" \in observations.columns => MaleColumnRight(observations))
    /\ ("transform" \in completed =>
            MaleColumnRight(observations) /\ MaleColumnRight(train) /\ MaleColumnRight(test))

\* C8's case: transform returned on a row whose sex is 'Male', capitalised,
\* and its male is false.
C8_Witness ==
    /\ pc = "transformed"
    /\ \E i \in 1..NRows(test) :
          /\ test.rows[i].sex = PyStr(<<"M", "a", "l", "e">>)
          /\ test.rows[i].male = FALSE

\* h is the first whitespace-delimited token of s: s is whitespace up to some
\* position, h is the non-empty run without whitespace that starts there,
\* and the string ends after it or goes on with whitespace.
IsFirstToken(h, s) ==
    /\ h # <<>>
    /\ \A k \in 1..Len(h) : h[k] \notin Whitespace
    /\ \E i \in 1..Len(s) :
          /\ \A j \in 1..(i - 1) : s[j] \in Whitespace
          /\ i + Len(h) - 1 <= Len(s)
          /\ SubSeq(s, i, i + Len(h) - 1) = h
          /\ (i + Len(h) <= Len(s) => s[i + Len(h)] \in Whitespace)

HasToken(x) == x.tag = "str" /\ ~(Elements(x.val) \subseteq Whitespace)

HonorificColumnRight(t) ==
    /\ "honorific" \in t.columns
    /\ \A i \in 1..NRows(t) :
          HasToken(t.rows[i].name) => IsFirstToken(t.rows[i].honorific, t.rows[i].name.val)

C10_GridOf24 ==
    "model" \in completed =>
        /\ Cardinality(Elements(trained_model.param_grid.svc__gamma)) = 1
        /\ Len(trained_model.param_grid.svc__gamma) = 1
        /\ Cardinality(Elements(trained_model.param_grid.svc__C)) = 1
        /\ Len(trained_model.param_grid.svc__C) = 1
        /\ trained_model.param_grid.svc__kernel = <<"linear", "poly", "rbf", "sigmoid">>
        /\ trained_model.param_grid.svc__degree = <<2, 3, 4, 5, 6, 7>>
        /\ Cardinality(trained_model.cv_results_) = 24
        /\ {c.params : c \in trained_model.cv_results_}
              = {[svc__gamma |-> trained_model.param_grid.svc__gamma[1],
                  svc__C |-> trained_model.param_grid.svc__C[1],
                  svc__kernel |-> k, svc__degree |-> d] :
                    k \in {"linear", "poly", "rbf", "sigmoid"}, d \in 2..7}
        /\ \A c \in trained_model.cv_results_ : c.n_splits = 2

\* C10's case: model returned with the fitted search.
C10_Witness ==
    /\ pc = "modelled"
    /\ trained_model.fitted
    /\ trained_model.cv_results_ # {}

====
